---- MODULE Spec2Model ----
(***************************************************************************)
(* Model of the Uster Waste integration (custom_components/uster_waste):   *)
(* the Swiss date parser _parse_date, the parse/summarise pipeline shared  *)
(* by the coordinator and the sensor, and the refresh protocol of          *)
(* UsterWasteDataUpdateCoordinator, UsterWasteSensor and UsterWasteButton. *)
(*                                                                         *)
(* Conventions.  A Python str that the code inspects character by          *)
(* character (a date text) is a sequence of one-character strings; the     *)
(* character a-umlaut is written "ae" and the no-break space "nbsp".       *)
(* An Optional value is None (the empty sequence) or Some(x) (<<x>>).      *)
(* A dict is a record carrying every key the code reads; a key the dict    *)
(* does not hold has the value None, which is what dict.get returns.       *)
(***************************************************************************)
EXTENDS Integers, Sequences, FiniteSets, TLC

None == <<>>
Some(x) == <<x>>

(***************************************************************************)
(* Characters and Python's str helpers                                     *)
(***************************************************************************)
DigitChars == <<"0", "1", "2", "3", "4", "5", "6", "7", "8", "9">>

Digits == {DigitChars[i] : i \in 1..10}

NonZeroDigits == Digits \ {"0"}

DigitChar(n) == DigitChars[n + 1]

DigitVal(c) == (CHOOSE i \in 1..10 : DigitChars[i] = c) - 1

\* str.isspace for the characters of the model: space and no-break space.
Whitespace == {" ", "nbsp"}

RECURSIVE LStrip(_)
LStrip(s) ==
    IF s # <<>> /\ Head(s) \in Whitespace THEN LStrip(Tail(s)) ELSE s

RECURSIVE RStrip(_)
RStrip(s) ==
    IF s # <<>> /\ s[Len(s)] \in Whitespace
    THEN RStrip(SubSeq(s, 1, Len(s) - 1))
    ELSE s

\* str.strip()
Strip(s) == RStrip(LStrip(s))

\* str.replace(key, val): leftmost, non-overlapping occurrences.
RECURSIVE Replace(_, _, _)
Replace(s, key, val) ==
    IF Len(s) < Len(key) THEN s
    ELSE IF SubSeq(s, 1, Len(key)) = key
         THEN val \o Replace(SubSeq(s, Len(key) + 1, Len(s)), key, val)
         ELSE <<Head(s)>> \o Replace(Tail(s), key, val)

\* str(n) for 0 <= n <= 99 and for a four-digit year.
Str2(n) == IF n < 10 THEN <<DigitChar(n)>>
           ELSE <<DigitChar(n \div 10), DigitChar(n % 10)>>

Str4(n) == <<DigitChar(n \div 1000), DigitChar((n \div 100) % 10),
             DigitChar((n \div 10) % 10), DigitChar(n % 10)>>

(***************************************************************************)
(* The calendar of datetime                                                *)
(***************************************************************************)
IsLeap(y) == (y % 4 = 0) /\ ((y % 100 # 0) \/ (y % 400 = 0))

DaysInMonth(y, m) ==
    IF m = 2 THEN (IF IsLeap(y) THEN 29 ELSE 28)
    ELSE IF m \in {4, 6, 9, 11} THEN 30 ELSE 31

RECURSIVE DaysBeforeMonth(_, _)
DaysBeforeMonth(y, m) ==
    IF m = 1 THEN 0 ELSE DaysBeforeMonth(y, m - 1) + DaysInMonth(y, m - 1)

\* datetime.toordinal(): the proleptic Gregorian day number of a date.
Ordinal(dt) ==
    LET y1 == dt.year - 1
    IN  365 * y1 + (y1 \div 4) - (y1 \div 100) + (y1 \div 400)
        + DaysBeforeMonth(dt.year, dt.month) + dt.day

(***************************************************************************)
(* _parse_date                                                             *)
(***************************************************************************)
\* MONTH_MAP in the dict's insertion order, which is the order of the loop.
MONTH_MAP ==
    << << <<"J", "a", "n">>, <<"0", "1">> >>,
       << <<"F", "e", "b">>, <<"0", "2">> >>,
       << <<"M", "r", "z">>, <<"0", "3">> >>,
       << <<"M", "ae", "r">>, <<"0", "3">> >>,
       << <<"A", "p", "r">>, <<"0", "4">> >>,
       << <<"M", "a", "i">>, <<"0", "5">> >>,
       << <<"J", "u", "n">>, <<"0", "6">> >>,
       << <<"J", "u", "l">>, <<"0", "7">> >>,
       << <<"A", "u", "g">>, <<"0", "8">> >>,
       << <<"S", "e", "p">>, <<"0", "9">> >>,
       << <<"O", "k", "t">>, <<"1", "0">> >>,
       << <<"N", "o", "v">>, <<"1", "1">> >>,
       << <<"D", "e", "z">>, <<"1", "2">> >> >>

\* for key, value in MONTH_MAP.items(): date_str = date_str.replace(key, value)
RECURSIVE NormalizeMonthsFrom(_, _)
NormalizeMonthsFrom(s, i) ==
    IF i > Len(MONTH_MAP) THEN s
    ELSE NormalizeMonthsFrom(Replace(s, MONTH_MAP[i][1], MONTH_MAP[i][2]), i + 1)

NormalizeMonths(s) == NormalizeMonthsFrom(s, 1)

\* The directive %d of strptime, (3[0-1]|[1-2]\d|0[1-9]|[1-9]| [1-9]), followed
\* by the literal period of the format: the number of characters it takes
\* (0: no match).  The period fixes the alternative, so no backtracking is left.
DayWidth(s) ==
    IF /\ Len(s) >= 3
       /\ s[3] = "."
       /\ \/ s[1] = "3" /\ s[2] \in {"0", "1"}
          \/ s[1] \in {"1", "2"} /\ s[2] \in Digits
          \/ s[1] = "0" /\ s[2] \in NonZeroDigits
          \/ s[1] = " " /\ s[2] \in NonZeroDigits
    THEN 2
    ELSE IF Len(s) >= 2 /\ s[1] \in NonZeroDigits /\ s[2] = "." THEN 1
    ELSE 0

\* The directive %m, (1[0-2]|0[1-9]|[1-9]), followed by the literal period.
MonthWidth(s) ==
    IF /\ Len(s) >= 3
       /\ s[3] = "."
       /\ \/ s[1] = "1" /\ s[2] \in {"0", "1", "2"}
          \/ s[1] = "0" /\ s[2] \in NonZeroDigits
    THEN 2
    ELSE IF Len(s) >= 2 /\ s[1] \in NonZeroDigits /\ s[2] = "." THEN 1
    ELSE 0

\* int() of a matched group of one or two characters (a leading blank of %d).
GroupVal(g) ==
    IF Len(g) = 1 THEN DigitVal(g[1])
    ELSE (IF g[1] = " " THEN 0 ELSE 10 * DigitVal(g[1])) + DigitVal(g[2])

\* The year group: %Y is \d\d\d\d; %y is \d\d, 69-99 -> 19xx and 00-68 -> 20xx.
\* Data left after the match is "unconverted data remains", a ValueError.
YearOf(s, fmt) ==
    IF fmt = "%d.%m.%Y"
    THEN IF Len(s) = 4 /\ \A i \in 1..4 : s[i] \in Digits
         THEN Some(1000 * DigitVal(s[1]) + 100 * DigitVal(s[2])
                   + 10 * DigitVal(s[3]) + DigitVal(s[4]))
         ELSE None
    ELSE IF Len(s) = 2 /\ \A i \in 1..2 : s[i] \in Digits
         THEN LET yy == 10 * DigitVal(s[1]) + DigitVal(s[2])
              IN  Some(IF yy <= 68 THEN 2000 + yy ELSE 1900 + yy)
         ELSE None

\* datetime.strptime(s, fmt) for the two formats of _parse_date: Some(date),
\* or None where strptime raises ValueError (no match, data left over, or a
\* day or year that datetime refuses).
Strptime(s, fmt) ==
    LET dw == DayWidth(s)
        r1 == SubSeq(s, dw + 2, Len(s))
        mw == MonthWidth(r1)
        r2 == SubSeq(r1, mw + 2, Len(r1))
        yr == YearOf(r2, fmt)
    IN  IF dw = 0 \/ mw = 0 \/ yr = None THEN None
        ELSE LET d == GroupVal(SubSeq(s, 1, dw))
                 m == GroupVal(SubSeq(r1, 1, mw))
                 y == yr[1]
             IN  IF y >= 1 /\ d <= DaysInMonth(y, m)
                 THEN Some([year |-> y, month |-> m, day |-> d])
                 ELSE None

ParseFormats == <<"%d.%m.%Y", "%d.%m.%y">>

\* _parse_date(date_str): strip, substitute the month abbreviations, then the
\* first format that parses; None when neither does.
_parse_date(date_str) ==
    LET s == NormalizeMonths(Strip(date_str))
    IN  IF Strptime(s, ParseFormats[1]) # None THEN Strptime(s, ParseFormats[1])
        ELSE IF Strptime(s, ParseFormats[2]) # None THEN Strptime(s, ParseFormats[2])
        ELSE None

(***************************************************************************)
(* Time.  The clock counts ticks; TicksPerDay ticks make a calendar day    *)
(* and clock 0 is midnight at the start of the day Epoch.                  *)
(***************************************************************************)
TicksPerDay == 2

MaxClock == 3

Epoch == [year |-> 2023, month |-> 10, day |-> 24]

\* SCAN_INTERVAL = timedelta(days=1), in ticks.
SCAN_INTERVAL == TicksPerDay

\* datetime.now() at a clock value: the calendar day and the time of day.
Now(t) == [ord |-> Ordinal(Epoch) + (t \div TicksPerDay),
           tod |-> t % TicksPerDay]

\* (dt - now).days: dt is midnight of its date, and timedelta.days is the
\* floor of the difference in days.
DaysUntil(dt, now) ==
    ((Ordinal(dt) - now.ord) * TicksPerDay - now.tod) \div TicksPerDay

(***************************************************************************)
(* The fetch-parse-summarise pipeline (the try block that the coordinator  *)
(* and the sensor share).  A table row is the sequence of its td texts:    *)
(* the collection type (a string) and the date text (characters).  A page  *)
(* is None (no table element) or Some(rows); rows[1] is the header row.    *)
(***************************************************************************)
NBSP_PAIR == <<" ", "nbsp">>

\* cols[1].get_text(strip=True).replace("  ", " ")
CleanDateText(t) == Replace(Strip(t), NBSP_PAIR, <<" ">>)

\* The body of the loop for one row: the entry appended, if any.
RowEntries(row, now) ==
    IF Len(row) < 2 THEN <<>>
    ELSE LET date_str == CleanDateText(row[2])
             dt == _parse_date(date_str)
         IN  IF dt = None THEN <<>>
             ELSE << [Sammlung |-> row[1],
                      Wann |-> date_str,
                      date_obj |-> dt[1],
                      days_until |-> DaysUntil(dt[1], now)] >>

\* for row in rows[1:4]: the rows after the header, three at most.
RowSlice(rows) == SubSeq(rows, 2, IF Len(rows) < 4 THEN Len(rows) ELSE 4)

RECURSIVE CollectEntries(_, _)
CollectEntries(rs, now) ==
    IF rs = <<>> THEN <<>>
    ELSE RowEntries(Head(rs), now) \o CollectEntries(Tail(rs), now)

\* InsertByDate with the comparison strict: e goes in front of the elements
\* of its own day (a sort that is not stable).
RECURSIVE InsertByDate_unstable(_, _)
InsertByDate_unstable(e, sorted) ==
    IF sorted = <<>> THEN <<e>>
    ELSE IF Ordinal(Head(sorted).date_obj) < Ordinal(e.date_obj)
         THEN <<Head(sorted)>> \o InsertByDate_unstable(e, Tail(sorted))
         ELSE <<e>> \o sorted

\* One step of a stable sort: e goes behind every element whose key is not
\* greater than its own.
RECURSIVE InsertByDate(_, _)
InsertByDate(e, sorted) ==
    IF sorted = <<>> THEN <<e>>
    ELSE IF Ordinal(Head(sorted).date_obj) <= Ordinal(e.date_obj)
         THEN <<Head(sorted)>> \o InsertByDate(e, Tail(sorted))
         ELSE <<e>> \o sorted

\* entries.sort(key=lambda x: x["date_obj"]): list.sort is stable.
RECURSIVE SortByDate(_)
SortByDate(es) ==
    IF es = <<>> THEN <<>>
    ELSE InsertByDate(es[Len(es)], SortByDate(SubSeq(es, 1, Len(es) - 1)))

\* The "entries" list of the dict: entries[:3], three keys each.
PublicEntries(es) ==
    [i \in 1..(IF Len(es) < 3 THEN Len(es) ELSE 3) |->
        [type |-> es[i].Sammlung, date |-> es[i].Wann,
         days_until |-> es[i].days_until]]

\* The dict built from the sorted entries.
SummaryDict(es) ==
    [error |-> None,
     next_collection |-> IF es # <<>> THEN Some(es[1].Sammlung) ELSE None,
     date |-> IF es # <<>> THEN Some(es[1].Wann) ELSE None,
     type |-> IF es # <<>> THEN Some(es[1].Sammlung) ELSE None,
     days_until |-> IF es # <<>> THEN Some(es[1].days_until) ELSE None,
     entries |-> PublicEntries(es)]

\* The dict of the except branch.
ErrorDict(msg) ==
    [error |-> Some(msg),
     next_collection |-> None,
     date |-> None,
     type |-> None,
     days_until |-> None,
     entries |-> <<>>]

TokenExpiredMsg ==
    "Token expired or invalid. Please get a fresh URL from https://www.uster.ch/abfallstrassenabschnitt"

HttpErrorMsg == "HTTP error"

NetworkErrorMsg == "network error"

NoTableMsg == "No table found on page."

NoDataRowsMsg == "Table has no data rows."

\* What the try block comes to for one answer of the site at one instant:
\* [raised |-> FALSE, dict |-> the summary] or [raised |-> TRUE, msg |-> str(e)].
\* An answer is [status |-> None] when session.get itself raises, else
\* [status |-> Some(code), page |-> the table of the document].
TryFetch(answer, now) ==
    IF answer.status = None
    THEN [raised |-> TRUE, msg |-> NetworkErrorMsg]
    ELSE IF answer.status[1] = 403 \/ answer.status[1] = 404
    THEN [raised |-> TRUE, msg |-> TokenExpiredMsg]
    ELSE IF answer.status[1] >= 400
    THEN [raised |-> TRUE, msg |-> HttpErrorMsg]
    ELSE IF answer.page = None
    THEN [raised |-> TRUE, msg |-> NoTableMsg]
    ELSE IF Len(answer.page[1]) < 2
    THEN [raised |-> TRUE, msg |-> NoDataRowsMsg]
    ELSE [raised |-> FALSE,
          dict |-> SummaryDict(SortByDate(
                       CollectEntries(RowSlice(answer.page[1]), now)))]

(***************************************************************************)
(* State                                                                   *)
(***************************************************************************)
VARIABLES
    clock,          \* the wall clock, in ticks
    data,           \* coordinator.data: None or Some(dict)
    last_error,     \* coordinator.last_error: None or Some(message)
    last_updated,   \* coordinator.last_updated: None or Some(clock value)
    sensor,         \* the sensor entity: data, native value, state attributes
    pc,             \* where each caller is suspended
    last_op,        \* the operation of the latest step and the caller it ran for
    fn_in,          \* input of the pure function under check (SpecParse, SpecSummary)
    fn_out          \* its result, None until it is applied

vars == <<clock, data, last_error, last_updated, sensor, pc, last_op, fn_in, fn_out>>

\* The callers: the scheduled refresh of the coordinator, the press of the
\* refresh button, and the platform's update of the sensor entity.
Callers == {"sched", "button", "poll"}

\* "idle"; "coord_get": suspended in coordinator.async_update at session.get;
\* "sensor_get": suspended in UsterWasteSensor._fetch_data at session.get.
InFlight == {c \in Callers : pc[c] \in {"coord_get", "sensor_get"}}

(***************************************************************************)
(* The answers of the site                                                 *)
(***************************************************************************)
HeaderRow == <<>>

RowToday == <<"Karton", <<"2", "4", ".", "1", "0", ".", "2", "0", "2", "3">> >>

RowTomorrow == <<"PET", <<"2", "5", ".", "1", "0", ".", "2", "0", "2", "3">> >>

RowYesterday == <<"Papier", <<"2", "3", ".", "1", "0", ".", "2", "0", "2", "3">> >>

\* The same day as RowToday, written with a two-digit year.
RowTodayShort == <<"Metall", <<"2", "4", ".", "1", "0", ".", "2", "3">> >>

\* The page's own style, "26. Okt. 2023".
RowAbbrev == <<"Sonderabfall",
               <<"2", "6", ".", " ", "O", "k", "t", ".", " ", "2", "0", "2", "3">> >>

\* A row with a single cell.
RowOneCell == <<"Hinweis">>

CoordPages ==
    { None,
      Some(<<HeaderRow>>),
      Some(<<HeaderRow, RowAbbrev, RowOneCell>>),
      Some(<<HeaderRow, RowTomorrow, RowAbbrev, RowToday>>) }

Answers ==
    {[status |-> None]}
    \cup {[status |-> Some(code)] : code \in {403, 404, 500}}
    \cup {[status |-> Some(200), page |-> p] : p \in CoordPages}

\* TryFetch for every answer at every clock value, tabulated (the @@ makes
\* the table an explicit function, so TryFetch is evaluated once per entry).
FetchTable ==
    [x \in Answers \X (0..MaxClock) |-> TryFetch(x[1], Now(x[2]))] @@ <<>>

(***************************************************************************)
(* UsterWasteDataUpdateCoordinator                                         *)
(***************************************************************************)
\* if self.last_updated and (datetime.now() - self.last_updated) < SCAN_INTERVAL
CacheValid ==
    /\ last_updated # None
    /\ (clock - last_updated[1]) < SCAN_INTERVAL

\* The end of the try block: the summary is stored and stamped.
CoordinatorStore(dict) ==
    [data |-> Some(dict), last_error |-> last_error, last_updated |-> Some(clock)]

\* CoordinatorExcept with the failed attempt stamped as a fetch time.
CoordinatorExcept_stamps(msg) ==
    [data |-> Some(ErrorDict(msg)), last_error |-> Some(msg),
     last_updated |-> Some(clock)]

\* The except branch: the error dict replaces the data, the message is kept.
CoordinatorExcept(msg) ==
    [data |-> Some(ErrorDict(msg)), last_error |-> Some(msg),
     last_updated |-> last_updated]

\* The coordinator's fields after the answer of the site has arrived.
CoordinatorAfter(answer) ==
    LET r == FetchTable[<<answer, clock>>]
    IN  IF r.raised THEN CoordinatorExcept(r.msg) ELSE CoordinatorStore(r.dict)

(***************************************************************************)
(* UsterWasteSensor                                                        *)
(***************************************************************************)
\* UsterWasteSensor._fetch_data: the same try block, the dict returned.
SensorFetchData(answer) ==
    LET r == FetchTable[<<answer, clock>>]
    IN  IF r.raised THEN ErrorDict(r.msg) ELSE r.dict

\* UsterWasteSensor.async_update once _fetch_data has returned d.
SensorAfter(d) ==
    [data |-> Some(d),
     native_value |-> Some(Len(d.entries)),
     attributes |-> [next_collection |-> d.next_collection,
                     date |-> d.date,
                     type |-> d.type,
                     days_until |-> d.days_until,
                     entries |-> d.entries,
                     error |-> d.error]]

SensorInit ==
    [data |-> None,
     native_value |-> None,
     attributes |-> [next_collection |-> None, date |-> None, type |-> None,
                     days_until |-> None, entries |-> <<>>, error |-> None]]

(***************************************************************************)
(* Actions                                                                 *)
(***************************************************************************)
Init ==
    /\ clock = 0
    /\ data = None
    /\ last_error = None
    /\ last_updated = None
    /\ sensor = SensorInit
    /\ pc = [c \in Callers |-> "idle"]
    /\ last_op = [op |-> "init", by |-> "none"]
    /\ fn_in = None
    /\ fn_out = None

\* Time passes.
Tick ==
    /\ clock < MaxClock
    /\ clock' = clock + 1
    /\ last_op' = [op |-> "tick", by |-> "none"]
    /\ UNCHANGED <<data, last_error, last_updated, sensor, pc, fn_in, fn_out>>

\* coordinator.async_update() up to its return or its first suspension.
\* `then` is where caller c goes on when the cache answers.
CoordinatorUpdateBegin(c, then) ==
    /\ IF CacheValid
       THEN /\ pc' = [pc EXCEPT ![c] = then]
            /\ last_op' = [op |-> "cache_hit", by |-> c]
       ELSE /\ pc' = [pc EXCEPT ![c] = "coord_get"]
            /\ last_op' = [op |-> "coord_get", by |-> c]
    /\ UNCHANGED <<clock, data, last_error, last_updated, sensor, fn_in, fn_out>>

\* The scheduled refresh calls coordinator.async_update().
ScheduledRefresh ==
    /\ pc["sched"] = "idle"
    /\ CoordinatorUpdateBegin("sched", "idle")

\* UsterWasteButton.async_press.  The coordinator is looked up in hass.data;
\* when it is there, coordinator.async_update() runs, and then
\* entity.async_update() for every entity of coordinator.entities, which
\* suspends in _fetch_data.  hass.data and coordinator.entities are filled
\* outside these files: whether the coordinator is found, and whether the
\* sensor is among the entities, are inputs of the press.
ButtonPress ==
    /\ pc["button"] = "idle"
    /\ \E found \in BOOLEAN, has_entity \in BOOLEAN :
         IF found
         THEN CoordinatorUpdateBegin("button",
                                     IF has_entity THEN "sensor_get" ELSE "idle")
         ELSE /\ last_op' = [op |-> "coordinator_not_found", by |-> "button"]
              /\ UNCHANGED <<clock, data, last_error, last_updated, sensor, pc,
                             fn_in, fn_out>>

\* The GET of coordinator.async_update answers; the rest of the method runs.
\* The button goes on into the loop over coordinator.entities.
CoordinatorGetDone ==
    \E c \in Callers, answer \in Answers, has_entity \in BOOLEAN :
        /\ pc[c] = "coord_get"
        /\ c # "button" => has_entity
        /\ \E after \in {CoordinatorAfter(answer)} :
               /\ data' = after.data
               /\ last_error' = after.last_error
               /\ last_updated' = after.last_updated
               /\ last_op' = [op |-> IF after.data[1].error = None
                                     THEN "coord_ok" ELSE "coord_failed",
                              by |-> c]
        /\ pc' = [pc EXCEPT ![c] = IF c = "button" /\ has_entity
                                   THEN "sensor_get" ELSE "idle"]
        /\ UNCHANGED <<clock, sensor, fn_in, fn_out>>

\* The platform updates the sensor: UsterWasteSensor.async_update().
SensorUpdate ==
    /\ pc["poll"] = "idle"
    /\ pc' = [pc EXCEPT !["poll"] = "sensor_get"]
    /\ last_op' = [op |-> "sensor_get", by |-> "poll"]
    /\ UNCHANGED <<clock, data, last_error, last_updated, sensor, fn_in, fn_out>>

\* The GET of _fetch_data answers; async_update stores what it returns.
SensorGetDone ==
    \E c \in Callers, answer \in Answers :
        /\ pc[c] = "sensor_get"
        /\ sensor' = SensorAfter(SensorFetchData(answer))
        /\ pc' = [pc EXCEPT ![c] = "idle"]
        /\ last_op' = [op |-> "sensor_done", by |-> c]
        /\ UNCHANGED <<clock, data, last_error, last_updated, fn_in, fn_out>>

Next ==
    \/ Tick
    \/ ScheduledRefresh
    \/ ButtonPress
    \/ CoordinatorGetDone
    \/ SensorUpdate
    \/ SensorGetDone

Spec == Init /\ [][Next]_vars

(***************************************************************************)
(* _parse_date on its own: SpecParse draws a day, a month abbreviation, a  *)
(* year and a spelling, and applies _parse_date to the abbreviated text    *)
(* and to its numeric equivalent.                                          *)
(***************************************************************************)
MaxParseDay == 28

ParseYears == {1999, 2023, 2024}

\* "d. A. y" (spaced, as in "24. Okt. 2023") or "d.A.y".
AbbrevForm(in) ==
    LET gap == IF in.spaced THEN <<" ">> ELSE <<>>
    IN  Str2(in.day) \o <<".">> \o gap \o MONTH_MAP[in.abbr][1] \o <<".">>
        \o gap \o Str4(in.year)

\* "d.m.y" with the month number of the map, as in "24.10.2023".
NumericForm(in) ==
    Str2(in.day) \o <<".">> \o MONTH_MAP[in.abbr][2] \o <<".">> \o Str4(in.year)

ParseInputs ==
    {in \in [kind : {"parse"}, day : 1..MaxParseDay, abbr : 1..Len(MONTH_MAP),
             year : ParseYears, spaced : BOOLEAN] :
        in.day <= DaysInMonth(in.year, GroupVal(MONTH_MAP[in.abbr][2]))}

InitParse ==
    /\ clock = 0
    /\ data = None
    /\ last_error = None
    /\ last_updated = None
    /\ sensor = SensorInit
    /\ pc = [c \in Callers |-> "idle"]
    /\ last_op = [op |-> "init", by |-> "none"]
    /\ fn_in \in {Some(in) : in \in ParseInputs}
    /\ fn_out = None

ParseStep ==
    /\ fn_in # None
    /\ fn_in[1].kind = "parse"
    /\ fn_out = None
    /\ fn_out' = Some([abbrev |-> _parse_date(AbbrevForm(fn_in[1])),
                       numeric |-> _parse_date(NumericForm(fn_in[1]))])
    /\ UNCHANGED <<clock, data, last_error, last_updated, sensor, pc, last_op, fn_in>>

NextParse == ParseStep

SpecParse == InitParse /\ [][NextParse]_vars

(***************************************************************************)
(* The pipeline on its own: SpecSummary draws a table and an instant and   *)
(* applies the try block to the page answered with status 200.             *)
(***************************************************************************)
MaxRows == 4

RowSet == {RowToday, RowTomorrow, RowYesterday, RowTodayShort, RowAbbrev, RowOneCell}

SummaryPages ==
    {Some(<<HeaderRow>> \o r) : r \in UNION {[1..n -> RowSet] : n \in 0..MaxRows}}

SummaryInputs == [kind : {"summary"}, page : SummaryPages, at : 0..MaxClock]

InitSummary ==
    /\ clock = 0
    /\ data = None
    /\ last_error = None
    /\ last_updated = None
    /\ sensor = SensorInit
    /\ pc = [c \in Callers |-> "idle"]
    /\ last_op = [op |-> "init", by |-> "none"]
    /\ fn_in \in {Some(in) : in \in SummaryInputs}
    /\ fn_out = None

SummaryStep ==
    /\ fn_in # None
    /\ fn_in[1].kind = "summary"
    /\ fn_out = None
    /\ fn_out' = Some(TryFetch([status |-> Some(200), page |-> fn_in[1].page],
                               Now(fn_in[1].at)))
    /\ UNCHANGED <<clock, data, last_error, last_updated, sensor, pc, last_op, fn_in>>

NextSummary == SummaryStep

SpecSummary == InitSummary /\ [][NextSummary]_vars

(***************************************************************************)
(* Properties of the refresh protocol (Spec)                               *)
(***************************************************************************)
\* A step that is the start of a refresh by caller c: the caller was idle and
\* the step ran for it.
Requests(c) == pc[c] = "idle" /\ last_op'.by = c

CoordInFlight == {c \in Callers : pc[c] = "coord_get"}

\* C1: once a fetch cycle has succeeded (last_updated is set by a successful
\* cycle and by nothing else), a fetch cycle that fails leaves the cached
\* summary as it was, and so never error-shaped.
C1_FailedFetchKeepsSummary ==
    [][ (last_op'.op = "coord_failed" /\ last_updated # None)
            => (data' = data /\ data'[1].error = None) ]_vars

\* C2: at most one GET of the coordinator is in flight at any time.
C2_SingleFlight == Cardinality(CoordInFlight) <= 1

\* C3: while the cached summary is younger than the refresh interval, a
\* refresh that is not forced - the scheduled refresh of the coordinator or
\* the platform's update of the sensor - issues no GET and leaves the cached
\* summary alone.
C3_FreshCacheNoRequest ==
    [][ (/\ CacheValid
         /\ \E c \in {"sched", "poll"} : Requests(c)
         /\ last_op'.op \in {"cache_hit", "coord_get", "sensor_get"})
            => (InFlight' = InFlight /\ data' = data) ]_vars

\* C4: a press of the refresh button that finds the coordinator always runs
\* the coordinator's fetch, also when the cache is fresh: after the press the
\* button waits for a GET of the coordinator - its own, or one that was
\* already in flight.
C4_ManualRefreshFetches ==
    [][ (/\ Requests("button")
         /\ last_op'.op \in {"cache_hit", "coord_get"})
            => (pc'["button"] = "coord_get" \/ CoordInFlight # {}) ]_vars

C6_SuccessClearsError ==
    last_op.op = "coord_ok"
        => /\ data # None /\ data[1].error = None
           /\ last_updated = Some(clock)
           /\ last_error = None

\* C7: a cycle in which no row yields a valid entry is a failure: a cycle
\* that ends as a success has cached at least one entry, and no cached
\* summary is success-shaped with empty entries.
C7_NoEntriesIsFailure ==
    /\ last_op.op = "coord_ok" => data[1].entries # <<>>
    /\ (data # None /\ data[1].error = None) => data[1].entries # <<>>

(***************************************************************************)
(* Properties of the pipeline (SpecSummary)                                *)
(***************************************************************************)
SummaryDone ==
    /\ fn_in # None
    /\ fn_in[1].kind = "summary"
    /\ fn_out # None

\* Day number of a date text that parses.
ParsedOrd(text) == Ordinal(_parse_date(text)[1])

IsValidRow(row) == Len(row) >= 2 /\ _parse_date(CleanDateText(row[2])) # None

\* The (type, date text) pairs of the rows that are considered and valid, in
\* the order of the table.
TablePairs(page) ==
    LET valid == SelectSeq(RowSlice(page[1]), IsValidRow)
    IN  [i \in 1..Len(valid) |-> <<valid[i][1], CleanDateText(valid[i][2])>>]

EntryPairs(entries) ==
    [i \in 1..Len(entries) |-> <<entries[i].type, entries[i].date>>]

\* The pairs of one day, in the order in which the sequence holds them.
OfDay(pairs, day) ==
    LET OnDay(p) == ParsedOrd(p[2]) = day
    IN  SelectSeq(pairs, OnDay)

\* C8: in every summary of a successful cycle, whatever the order of the
\* rows: at most 3 entries, ascending by parsed date, the entries of one day
\* in the order of their rows, and the next_* fields those of the first entry
\* (none when there is no entry).
C8_SummarySortedAndNextIsFirst ==
    (SummaryDone /\ ~fn_out[1].raised) =>
        LET d == fn_out[1].dict
            es == d.entries
            days == {ParsedOrd(es[i].date) : i \in 1..Len(es)}
        IN  /\ Len(es) <= 3
            /\ \A i \in 1..(Len(es) - 1) :
                   ParsedOrd(es[i].date) <= ParsedOrd(es[i + 1].date)
            /\ \A day \in days :
                   OfDay(EntryPairs(es), day) = OfDay(TablePairs(fn_in[1].page), day)
            /\ IF es # <<>>
               THEN /\ d.next_collection = Some(es[1].type)
                    /\ d.type = Some(es[1].type)
                    /\ d.date = Some(es[1].date)
                    /\ d.days_until = Some(es[1].days_until)
               ELSE /\ d.next_collection = None
                    /\ d.type = None
                    /\ d.date = None
                    /\ d.days_until = None

\* Witness of C8: a summary of three entries whose rows were not in order of
\* date and two of which fall on the same day.
C8_Witness ==
    /\ SummaryDone
    /\ ~fn_out[1].raised
    /\ LET es == fn_out[1].dict.entries
       IN  /\ Len(es) = 3
           /\ EntryPairs(es) # TablePairs(fn_in[1].page)
           /\ \E i \in 1..2 : /\ ParsedOrd(es[i].date) = ParsedOrd(es[i + 1].date)
                              /\ es[i].type # es[i + 1].type

\* C9: days_until of every entry is the entry's date minus the calendar date
\* of the fetch instant, in whole days, at any time of day.
C9_DaysUntilIsCalendarDifference ==
    (SummaryDone /\ ~fn_out[1].raised) =>
        \A i \in 1..Len(fn_out[1].dict.entries) :
            fn_out[1].dict.entries[i].days_until
                = ParsedOrd(fn_out[1].dict.entries[i].date) - Now(fn_in[1].at).ord

(***************************************************************************)
(* Properties of _parse_date (SpecParse)                                   *)
(***************************************************************************)
\* C10: for every valid day, month abbreviation and four-digit year,
\* _parse_date of "d. A. y" is the date that _parse_date of "d.m.y" is, and
\* that is a date.
C10_AbbrevParsesAsNumeric ==
    (/\ fn_in # None
     /\ fn_in[1].kind = "parse"
     /\ fn_in[1].spaced
     /\ fn_out # None)
        => /\ fn_out[1].numeric # None
           /\ fn_out[1].abbrev = fn_out[1].numeric

(***************************************************************************)
(* Concurrent async_update calls on one coordinator (Spec)                 *)
(***************************************************************************)
\* C11: in every reachable state where last_updated is set and younger than
\* the refresh interval - the states in which async_update returns self.data
\* through the cache-hit path - the cached data is the success-shaped summary
\* and carries no error, whatever other calls were in flight.
C11_FreshCacheCarriesNoError ==
    CacheValid => (data # None /\ data[1].error = None)

====
